---- MODULE Spec2Model ----
(***************************************************************************)
(* Model of torncity-bot/bot.py: the Torn API fetch with rate-limit retry, *)
(* the two data pipelines built on it (/stocks and /travelitems), the      *)
(* Discord command handlers, the liveness endpoint and main().             *)
(*                                                                         *)
(* Python values are tagged records [t, v]:                                *)
(*   None  [t |-> "null"], numbers [t |-> "num"], booleans [t |-> "bool"], *)
(*   str   [t |-> "str",  v |-> sequence of text fragments],               *)
(*   list  [t |-> "list", v |-> sequence of values],                       *)
(*   dict  [t |-> "obj",  v |-> sequence of [k, x] pairs in insertion      *)
(*                              order, keys unique].                       *)
(* A str is a sequence of fragments so that an f-string is a concatenation *)
(* and the substring test  'error' in s  is the occurrence of a fragment.  *)
(***************************************************************************)
EXTENDS Integers, Sequences, FiniteSets, TLC

VARIABLES
    (* fetch_torn_data_with_retry called directly (specification FetchSpec) *)
    max_retries,    \* the max_retries argument
    attempt,        \* the loop variable of line 37
    fpc,            \* "loop" | "sleeping" | "returned" | "raised"
    responses,      \* what the provider answered to each requests.get so far
    sleeps,         \* the duration of each time.sleep so far, in seconds
    fresult,        \* the value returned
    fexc,           \* the class of the exception that left the function
    (* the bot process (specification Spec) *)
    BOT_TOKEN,      \* os.getenv('BOT_TOKEN')
    mainPc,         \* "start" | "gathered" | "returned"
    botStarted,     \* bot.start(BOT_TOKEN) is running as a task
    botReady,       \* on_ready has fired: commands are dispatched
    webStarted,     \* start_web_server() is running as a task
    webListening,   \* site.start() has bound the port
    running,        \* the invocation whose handler holds the event loop's thread, 0 if none
    pc,             \* per invocation: position in its command handler
    cmd,            \* per invocation: "stocks" | "travelitems" | "none"
    att,            \* per invocation: attempt of the fetch in progress
    fetched,        \* per invocation: the provider's answer that ended the fetch
    result,         \* per invocation: what get_torn_stock_data / get_travel_item_info returned
    sent,           \* per invocation: the messages handed to interaction.followup.send
    healthPending   \* GET / requests received on the port and not yet answered

fetchVars == <<max_retries, attempt, fpc, responses, sleeps, fresult, fexc>>
botVars == <<BOT_TOKEN, mainPc, botStarted, botReady, webStarted, webListening,
             running, pc, cmd, att, fetched, result, sent, healthPending>>
vars == <<fetchVars, botVars>>

-----------------------------------------------------------------------------
(* Bounds of the model *)

\* the largest max_retries argument FetchSpec draws
MaxRetriesBound == 3
\* the number of command invocations the bot receives
NumInv == 2
\* the number of GET / requests that can wait for the liveness endpoint at once
MaxHealth == 1

(* Constants of the program *)

\* max_retries: int = 3
DefaultMaxRetries == 3
\* data['error']['code'] == 5
RateLimitCode == 5
\* 2 ** attempt
BackoffBase == 2

-----------------------------------------------------------------------------
(* Python values *)

PyNone == [t |-> "null", v |-> 0]
Num(n) == [t |-> "num", v |-> n]
Bool(b) == [t |-> "bool", v |-> b]
Str(frags) == [t |-> "str", v |-> frags]
List(elems) == [t |-> "list", v |-> elems]
Dict(pairs) == [t |-> "obj", v |-> pairs]
KV(key, val) == [k |-> key, x |-> val]

HasKey(d, key) == \E i \in 1..Len(d.v) : d.v[i].k = key
GetKey(d, key) == d.v[CHOOSE i \in 1..Len(d.v) : d.v[i].k = key].x

\* the result of evaluating an expression: a value, or the class of the exception raised
Ok(val) == [exc |-> "", val |-> val]
Raise(class) == [exc |-> class, val |-> PyNone]

\* word in data
PyContains(data, word) ==
    CASE data.t = "obj" -> Ok(HasKey(data, word))
      [] data.t = "list" -> Ok(\E i \in 1..Len(data.v) : data.v[i] = Str(<<word>>))
      [] data.t = "str" -> Ok(\E i \in 1..Len(data.v) : data.v[i] = word)
      [] OTHER -> Raise("TypeError")

\* data[key], key a str
PySubscript(data, key) ==
    IF data.t = "obj"
    THEN IF HasKey(data, key) THEN Ok(GetKey(data, key)) ELSE Raise("KeyError")
    ELSE Raise("TypeError")

\* data.get(key, default) on a dict; any other value has no .get
PyGet(data, key, default) ==
    IF data.t = "obj"
    THEN Ok(IF HasKey(data, key) THEN GetKey(data, key) ELSE default)
    ELSE Raise("AttributeError")

\* bool(value)
Truthy(value) ==
    CASE value.t = "null" -> FALSE
      [] value.t = "bool" -> value.v
      [] value.t = "num" -> value.v # 0
      [] OTHER -> Len(value.v) > 0

-----------------------------------------------------------------------------
(* The provider's answers to one requests.get.  classes is the set of     *)
(* exception classes the exception raised by lines 39-41 is an instance   *)
(* of, {} when the body was parsed; msg is the exception's text.          *)

Answer(body) == [classes |-> {}, msg |-> "", body |-> body]
Failure(classes, msg) == [classes |-> classes, msg |-> msg, body |-> PyNone]

\* requests.get fails: ConnectionError, Timeout
TransportFailure == Failure({"RequestException"}, "Connection refused")
\* raise_for_status() on a 4xx or 5xx status
HttpErrorStatus == Failure({"RequestException"}, "502 Server Error")
\* response.json() on a non-JSON body.  requests >= 2.27 raises
\* requests.exceptions.JSONDecodeError, a subclass of RequestException and of
\* json.JSONDecodeError; an older requests raises json.JSONDecodeError.  The
\* repository pins no version, so both builds are possible.
MalformedBody == Failure({"RequestException", "JSONDecodeError"}, "Expecting value")
MalformedBodyLegacy == Failure({"JSONDecodeError"}, "Expecting value")
MalformedAnswers == {MalformedBody, MalformedBodyLegacy}

ProviderError(code, message) ==
    Dict(<<KV("error", Dict(<<KV("code", Num(code)), KV("error", Str(<<message>>))>>))>>)
RateLimitBody == ProviderError(RateLimitCode, "Too many requests")
IncorrectKeyBody == ProviderError(2, "Incorrect key")
AccessLevelBody == ProviderError(16, "Access level of this key is not high enough")
OtherErrorBodies == {IncorrectKeyBody, AccessLevelBody}

\* JSON bodies that are not the provider's documented envelope
OddBodies ==
    { PyNone, Num(7), Str(<<"ok">>), Str(<<"an ", "error">>),
      List(<<>>), List(<<Str(<<"error">>)>>),
      Dict(<<KV("error", Str(<<"boom">>))>>),
      Dict(<<KV("error", PyNone)>>),
      Dict(<<KV("error", Dict(<<KV("error", Str(<<"no code">>))>>))>>) }

Stock(name, acronym, price, benefit) ==
    Dict(<<KV("name", Str(<<name>>)), KV("acronym", Str(<<acronym>>)),
           KV("current_price", Num(price)), KV("benefit_available", Bool(benefit))>>)
StocksBody(pairs) == Dict(<<KV("stocks", Dict(pairs))>>)
StockTSB == Stock("Torn & Shanghai Banking", "TSB", 1200, TRUE)
StockTCT == Stock("Torn City Times", "TCT", 950, FALSE)
StockFHG == Stock("Feathery Hotels Group", "FHG", 1000000, FALSE)
StockSYM == Stock("Symbiotic Ltd.", "SYM", 0, TRUE)
StocksBodies ==
    { Dict(<<>>),
      StocksBody(<<>>),
      StocksBody(<<KV("1", StockTSB)>>),
      StocksBody(<<KV("1", StockTSB), KV("2", StockTCT), KV("3", StockFHG)>>),
      StocksBody(<<KV("1", StockTSB), KV("2", StockTCT), KV("3", StockFHG), KV("4", StockSYM)>>) }

Item(name, prices) == Dict(<<KV("name", Str(<<name>>))>> \o prices)
ItemsBody(pairs) == Dict(<<KV("items", Dict(pairs))>>)
ItemPanda == Item("Panda Plushie", <<KV("market_price", Num(1250)), KV("sell_price", Num(950))>>)
ItemBeer == Item("Bottle of Beer", <<KV("sell_price", Num(5))>>)
ItemKitten == Item("Kitten Plushie", <<KV("market_price", Num(700)), KV("sell_price", Num(500))>>)
ItemRock == Item("Rock", <<KV("market_price", Num(1)), KV("sell_price", Num(1))>>)
ItemSake == Item("Bottle of Sake", <<KV("market_price", PyNone), KV("sell_price", Num(40))>>)
ItemsBodies ==
    { ItemsBody(<<>>),
      ItemsBody(<<KV("1", ItemRock)>>),
      ItemsBody(<<KV("1", ItemRock), KV("2", ItemPanda)>>),
      ItemsBody(<<KV("2", ItemPanda), KV("3", ItemBeer), KV("4", ItemKitten)>>),
      ItemsBody(<<KV("4", ItemKitten), KV("5", ItemSake)>>) }

\* the sell listings on the provider's item market when the items are fetched,
\* by item name; the items selection of line 106 does not return them
MarketListings(name) ==
    CASE name = "Panda Plushie" -> <<1000, 1500>>
      [] name = "Kitten Plushie" -> <<700>>
      [] OTHER -> <<>>

PayloadBodies == StocksBodies \cup ItemsBodies

FetchAnswers ==
    {TransportFailure, HttpErrorStatus} \cup MalformedAnswers
    \cup {Answer(b) : b \in {RateLimitBody} \cup OtherErrorBodies \cup OddBodies \cup PayloadBodies}

\* what the provider answers to the request of a command: by the selection in its URL
CommandAnswers(c) ==
    {TransportFailure, MalformedBody}
    \cup {Answer(b) : b \in {RateLimitBody, IncorrectKeyBody, List(<<>>),
                             Dict(<<KV("error", Str(<<"boom">>))>>)}}
    \cup {Answer(b) : b \in IF c = "stocks" THEN StocksBodies ELSE ItemsBodies}

-----------------------------------------------------------------------------
(* fetch_torn_data_with_retry *)

ErrorResult(frags) == Dict(<<KV("error", Str(frags))>>)
RateLimitError ==
    ErrorResult(<<"Torn API Error 5: Rate limit exceeded. Please wait a minute and try again.">>)
ConnectionError(msg) ==
    ErrorResult(<<"API Connection Error: Failed to connect to Torn API. (", msg, ")">>)
InvalidJsonError == ErrorResult(<<"API Response Error: Received invalid JSON from Torn.">>)
MaxRetriesError == ErrorResult(<<"Maximum retries reached due to an unknown issue.">>)

\* for attempt in range(max_retries)
LoopContinues_OffByOne(a, m) == a <= m
LoopContinues(a, m) == a < m

\* if attempt < max_retries - 1
HasRetriesLeft_Always(a, m) == a < m
HasRetriesLeft(a, m) == a < m - 1

\* time.sleep(2 ** attempt)
Backoff_Linear(a) == BackoffBase * a
Backoff(a) == BackoffBase ^ a

\* 'error' in data and data['error']['code'] == 5
IsRateLimited(data) ==
    LET has == PyContains(data, "error") IN
    IF has.exc # "" THEN Raise(has.exc)
    ELSE IF ~has.val THEN Ok(FALSE)
    ELSE LET err == PySubscript(data, "error") IN
         IF err.exc # "" THEN Raise(err.exc)
         ELSE LET code == PySubscript(err.val, "code") IN
              IF code.exc # "" THEN Raise(code.exc)
              ELSE Ok(code.val = Num(RateLimitCode))

Sleeping(secs) == [kind |-> "sleep", value |-> PyNone, secs |-> secs, classes |-> {}, msg |-> ""]
Returning(value) == [kind |-> "return", value |-> value, secs |-> 0, classes |-> {}, msg |-> ""]
Raising(classes, msg) == [kind |-> "raise", value |-> PyNone, secs |-> 0, classes |-> classes, msg |-> msg]

\* the body of the try statement, lines 39-52
TryBody(resp, a, m) ==
    IF resp.classes # {} THEN Raising(resp.classes, resp.msg)
    ELSE LET limited == IsRateLimited(resp.body) IN
         IF limited.exc # "" THEN Raising({limited.exc}, limited.exc)
         ELSE IF limited.val
              THEN IF HasRetriesLeft(a, m) THEN Sleeping(Backoff(a)) ELSE Returning(RateLimitError)
              ELSE Returning(resp.body)

\* the except clauses, lines 54-57, tried in order
ExceptClauses(raised) ==
    IF "RequestException" \in raised.classes THEN Returning(ConnectionError(raised.msg))
    ELSE IF "JSONDecodeError" \in raised.classes THEN Returning(InvalidJsonError)
    ELSE raised

\* one iteration of the loop
FetchAttempt(resp, a, m) ==
    LET o == TryBody(resp, a, m) IN
    IF o.kind = "raise" THEN ExceptClauses(o) ELSE o

-----------------------------------------------------------------------------
(* fetch_torn_data_with_retry(url, max_retries) called directly *)

BotIdle ==
    /\ BOT_TOKEN = PyNone /\ mainPc = "start"
    /\ botStarted = FALSE /\ botReady = FALSE
    /\ webStarted = FALSE /\ webListening = FALSE
    /\ running = 0
    /\ pc = [i \in 1..NumInv |-> "idle"]
    /\ cmd = [i \in 1..NumInv |-> "none"]
    /\ att = [i \in 1..NumInv |-> 0]
    /\ fetched = [i \in 1..NumInv |-> Answer(PyNone)]
    /\ result = [i \in 1..NumInv |-> PyNone]
    /\ sent = [i \in 1..NumInv |-> <<>>]
    /\ healthPending = 0

FetchIdle ==
    /\ attempt = 0 /\ fpc = "loop" /\ responses = <<>> /\ sleeps = <<>>
    /\ fresult = PyNone /\ fexc = ""

FetchInit ==
    /\ max_retries \in 0..MaxRetriesBound
    /\ FetchIdle
    /\ BotIdle

\* requests.get answers resp; the iteration runs to its sleep, return or raise
FetchRequest(resp) ==
    /\ fpc = "loop"
    /\ LoopContinues(attempt, max_retries)
    /\ responses' = Append(responses, resp)
    /\ LET o == FetchAttempt(resp, attempt, max_retries) IN
        /\ fpc' = CASE o.kind = "sleep" -> "sleeping"
                    [] o.kind = "return" -> "returned"
                    [] OTHER -> "raised"
        /\ sleeps' = IF o.kind = "sleep" THEN Append(sleeps, o.secs) ELSE sleeps
        /\ fresult' = o.value
        /\ fexc' = IF o.kind = "raise" THEN CHOOSE c \in o.classes : TRUE ELSE ""
    /\ UNCHANGED <<max_retries, attempt, botVars>>

\* time.sleep returns; continue
FetchSleepDone ==
    /\ fpc = "sleeping"
    /\ attempt' = attempt + 1
    /\ fpc' = "loop"
    /\ UNCHANGED <<max_retries, responses, sleeps, fresult, fexc, botVars>>

\* the loop ends without a return: line 59
FetchExhausted ==
    /\ fpc = "loop"
    /\ ~LoopContinues(attempt, max_retries)
    /\ fpc' = "returned"
    /\ fresult' = MaxRetriesError
    /\ UNCHANGED <<max_retries, attempt, responses, sleeps, fexc, botVars>>

FetchNext ==
    \/ \E resp \in FetchAnswers : FetchRequest(resp)
    \/ FetchSleepDone
    \/ FetchExhausted

FetchSpec == FetchInit /\ [][FetchNext]_vars

-----------------------------------------------------------------------------
(* Text *)

RECURSIVE Text(_)
\* the characters of a str: its fragments joined
Text(s) == IF s.v = <<>> THEN "" ELSE Head(s.v) \o Text([s EXCEPT !.v = Tail(s.v)])

RECURSIVE JoinLines(_)
\* "\n".join(lines)
JoinLines(lines) ==
    IF lines = <<>> THEN ""
    ELSE IF Len(lines) = 1 THEN lines[1]
    ELSE lines[1] \o "\n" \o JoinLines(Tail(lines))

RECURSIVE PadRight(_, _)
\* f"{s:<w}"
PadRight(s, w) == IF Len(s) >= w THEN s ELSE PadRight(s \o " ", w)

RECURSIVE PadLeft(_, _)
\* f"{s:>w}"
PadLeft(s, w) == IF Len(s) >= w THEN s ELSE PadLeft(" " \o s, w)

ThreeDigits(r) ==
    IF r < 10 THEN "00" \o ToString(r)
    ELSE IF r < 100 THEN "0" \o ToString(r)
    ELSE ToString(r)

RECURSIVE GroupThousands(_)
\* the "," of the format specification: digits in groups of three
GroupThousands(n) ==
    IF n < 1000 THEN ToString(n)
    ELSE GroupThousands(n \div 1000) \o "," \o ThreeDigits(n % 1000)

\* f"${x:,.0f}" of an integer
FormatWhole(n) == "$" \o (IF n < 0 THEN "-" \o GroupThousands(-n) ELSE GroupThousands(n))
\* f"${x:,.2f}" of an integer
FormatCents(n) == FormatWhole(n) \o ".00"

\* the strings the model sorts, in code-point order (str.__lt__)
StringOrder == <<"FHG", "N/A", "SYM", "TCT", "TSB">>
StringRank(text) == CHOOSE i \in 1..Len(StringOrder) : StringOrder[i] = text

-----------------------------------------------------------------------------
(* get_torn_stock_data *)

ParsingError(text) ==
    ErrorResult(<<"Data Parsing Error: Missing expected fields or unexpected structure. ", text>>)

\* the dict appended for one stock, lines 82-90
StockEntry(pair) ==
    LET price == PyGet(pair.x, "current_price", Num(0)) IN
    IF price.exc # "" THEN Raise(price.exc)
    ELSE IF price.val.t # "num" THEN Raise("TypeError")
    ELSE Ok(Dict(<<KV("id", Str(<<pair.k>>)),
                   KV("name", PyGet(pair.x, "name", Str(<<"N/A">>)).val),
                   KV("acronym", PyGet(pair.x, "acronym", Str(<<"N/A">>)).val),
                   KV("price", Str(<<FormatCents(price.val.v)>>)),
                   KV("benefit_available", PyGet(pair.x, "benefit_available", Bool(FALSE)).val)>>))

AcronymKey(stock) == StringRank(Text(GetKey(stock, "acronym")))

RECURSIVE InsertByAcronym(_, _)
\* stock placed after every element whose key is not greater
InsertByAcronym(stock, sorted) ==
    IF sorted = <<>> THEN <<stock>>
    ELSE IF AcronymKey(Head(sorted)) <= AcronymKey(stock)
         THEN <<Head(sorted)>> \o InsertByAcronym(stock, Tail(sorted))
         ELSE <<stock>> \o sorted

RECURSIVE SortByAcronym(_)
\* stock_list.sort(key=lambda x: x['acronym']): stable
SortByAcronym(list) ==
    IF list = <<>> THEN <<>>
    ELSE InsertByAcronym(list[Len(list)], SortByAcronym(SubSeq(list, 1, Len(list) - 1)))

\* the try statement of get_torn_stock_data, lines 78-96
StockList(data) ==
    LET stocks == PyGet(data, "stocks", Dict(<<>>)) IN
    IF stocks.exc # "" THEN ParsingError(stocks.exc)
    ELSE IF stocks.val.t # "obj" THEN ParsingError("AttributeError")
    ELSE LET entries == [i \in 1..Len(stocks.val.v) |-> StockEntry(stocks.val.v[i])]
             bad == {i \in 1..Len(entries) : entries[i].exc # ""}
         IN  IF bad # {}
             THEN ParsingError(entries[CHOOSE i \in bad : \A j \in bad : i <= j].exc)
             ELSE IF \E i \in 1..Len(entries) : GetKey(entries[i].val, "acronym").t # "str"
             THEN ParsingError("TypeError")
             ELSE Dict(<<KV("stocks",
                         List(SortByAcronym([i \in 1..Len(entries) |-> entries[i].val])))>>)

\* the branch of lines 73-76, which line 70 keeps from running
ProviderErrorMessage(data) ==
    LET err == GetKey(data, "error") IN
    ErrorResult(<<"Torn API Error ", ToString(GetKey(err, "code").v), ": ">>
                \o GetKey(err, "error").v)

\* get_torn_stock_data past the fetch, lines 70-96
StockData(data) ==
    LET has == PyContains(data, "error") IN
    IF has.exc # "" THEN Raise(has.exc)
    ELSE IF has.val THEN Ok(data)
    ELSE Ok(StockList(data))

-----------------------------------------------------------------------------
(* get_travel_item_info *)

TRAVEL_ITEM_MAP ==
    << [country |-> "China", flag |-> "china",
        items |-> <<"Panda Plushie", "Bottle of Beer">>],
       [country |-> "UAE (Dubai)", flag |-> "uae",
        items |-> <<"Gold Plated AK-47", "Bottle of Champagne">>],
       [country |-> "South Africa", flag |-> "south",
        items |-> <<"African Lion Plushie", "Bottle of Minty Hot Chocolate">>],
       [country |-> "Japan", flag |-> "japan",
        items |-> <<"Kitten Plushie", "Bottle of Sake">>] >>

TARGET_ITEM_NAMES ==
    UNION { {TRAVEL_ITEM_MAP[c].items[j] : j \in 1..Len(TRAVEL_ITEM_MAP[c].items)} :
            c \in 1..Len(TRAVEL_ITEM_MAP) }

\* d[key] = val
DictSet(d, key, val) ==
    IF HasKey(d, key)
    THEN Dict([i \in 1..Len(d.v) |-> IF d.v[i].k = key THEN KV(key, val) ELSE d.v[i]])
    ELSE Dict(Append(d.v, KV(key, val)))

\* item_info.get('market_price', 0)
ItemMarketPrice_SellPrice(item_info) == PyGet(item_info, "sell_price", Num(0))
ItemMarketPrice(item_info) == PyGet(item_info, "market_price", Num(0))

\* item_info.get('sell_price', 0)
ItemSellPrice(item_info) == PyGet(item_info, "sell_price", Num(0))

\* item_name in TARGET_ITEM_NAMES
IsTargetItem(name) == name.t = "str" /\ Text(name) \in TARGET_ITEM_NAMES

\* the value stored for one matching item, lines 130-137
ItemEntry(item_info) ==
    LET market == ItemMarketPrice(item_info)
        sell == ItemSellPrice(item_info)
    IN  IF market.val.t # "num" \/ sell.val.t # "num" THEN Raise("TypeError")
        ELSE Ok(Dict(<<KV("market_price", Str(<<FormatWhole(market.val.v)>>)),
                       KV("sell_price", Str(<<FormatWhole(sell.val.v)>>)),
                       KV("rarity", PyGet(item_info, "rarity", Str(<<"N/A">>)).val)>>))

RECURSIVE CollectTargets(_, _)
\* the loop of lines 123-137 over the remaining items, target_items so far
CollectTargets(pairs, target_items) ==
    IF pairs = <<>> THEN Ok(target_items)
    ELSE LET name == PyGet(Head(pairs).x, "name", PyNone) IN
         IF name.exc # "" THEN Raise(name.exc)
         ELSE IF ~IsTargetItem(name.val) THEN CollectTargets(Tail(pairs), target_items)
         ELSE LET entry == ItemEntry(Head(pairs).x) IN
              IF entry.exc # "" THEN Raise(entry.exc)
              ELSE CollectTargets(Tail(pairs), DictSet(target_items, Text(name.val), entry.val))

NoMatchError ==
    ErrorResult(<<"Failed to find any matching travel item data. API structure may have changed or key lacks permission.">>)

\* the try statement of get_travel_item_info, lines 118-145
TargetItems(data) ==
    LET all_items == PyGet(data, "items", Dict(<<>>)) IN
    IF all_items.exc # "" THEN ParsingError(all_items.exc)
    ELSE IF all_items.val.t # "obj" THEN ParsingError("AttributeError")
    ELSE LET found == CollectTargets(all_items.val.v, Dict(<<>>)) IN
         IF found.exc # "" THEN ParsingError(found.exc)
         ELSE IF found.val.v = <<>> THEN NoMatchError
         ELSE Dict(<<KV("items", found.val)>>)

\* get_travel_item_info past the fetch, lines 110-145
TravelItemInfo(data) ==
    LET has == PyContains(data, "error") IN
    IF has.exc # "" THEN Raise(has.exc)
    ELSE IF has.val THEN Ok(data)
    ELSE Ok(TargetItems(data))

-----------------------------------------------------------------------------
(* The command handlers: what each does with the value of its pipeline.   *)
(* A handler hands at most one embed to interaction.followup.send, or     *)
(* ends in an exception, which discord.py logs: nothing is sent then.     *)

Embed(title, description, fields, footer, ephemeral) ==
    [title |-> title, description |-> description, fields |-> fields,
     footer |-> footer, ephemeral |-> ephemeral]
Field(name, value) == [name |-> name, value |-> value]
Sends(embed) == [exc |-> "", msgs |-> <<embed>>]
Faults(class) == [exc |-> class, msgs |-> <<>>]

\* the line of one stock, lines 183-186 (the backquote of Discord's markdown is
\* written ' here: a TLA+ string cannot hold one)
StockLine(stock) ==
    "'" \o PadRight(Text(GetKey(stock, "acronym")), 4) \o "' "
        \o PadLeft(Text(GetKey(stock, "price")), 10) \o " "
        \o (IF Truthy(GetKey(stock, "benefit_available")) THEN ":gem:" ELSE "")

\* (len(field_value) + 2) // 3
ChunkSize(n) == (n + 2) \div 3

\* [field_value[i:i + chunk_size] for i in range(0, len(field_value), chunk_size)]
Chunks(field_value, chunk_size) ==
    LET n == Len(field_value)
        count == (n + chunk_size - 1) \div chunk_size
    IN  [j \in 1..count |->
            SubSeq(field_value, (j - 1) * chunk_size + 1,
                   IF j * chunk_size < n THEN j * chunk_size ELSE n)]

\* the else branch of torn_stocks_command, lines 178-206
StocksReport(stock_list) ==
    LET field_value == [i \in 1..Len(stock_list) |-> StockLine(stock_list[i])]
        chunk_size == ChunkSize(Len(field_value))
    IN  IF chunk_size = 0 THEN Faults("ValueError")   \* range() arg 3 must not be zero
        ELSE LET chunks == Chunks(field_value, chunk_size) IN
             IF Len(chunks) = 0 THEN Faults("IndexError")
             ELSE Sends(Embed(
                    ":chart_with_upwards_trend: Torn City Live Stock Prices",
                    Str(<<"Current prices for ", ToString(Len(stock_list)),
                          " stocks. Benefit available stocks are marked with :gem:">>),
                    <<Field("Acronym | Price", JoinLines(chunks[1]))>>
                        \o (IF Len(chunks) > 1 THEN <<Field("<zero width space>", JoinLines(chunks[2]))>> ELSE <<>>)
                        \o (IF Len(chunks) > 2 THEN <<Field("<zero width space>", JoinLines(chunks[3]))>> ELSE <<>>),
                    "Requested by display_name | Data via Torn API",
                    FALSE))

\* torn_stocks_command past the fetch: data is what get_torn_stock_data evaluated to
StocksCommand(data) ==
    IF data.exc # "" THEN Faults(data.exc)
    ELSE IF PyContains(data.val, "error").val
    THEN Sends(Embed(":x: Torn Stocks Lookup Failed", GetKey(data.val, "error"), <<>>,
                     "Check your API key and permissions.", TRUE))
    ELSE StocksReport(GetKey(data.val, "stocks").v)

\* the lines of one country, lines 235-244
CountryContent(items_list, target_items) ==
    LET shown == SelectSeq(items_list,
                    LAMBDA name : HasKey(target_items, name) /\ Truthy(GetKey(target_items, name)))
    IN  [j \in 1..Len(shown) |->
            "**" \o shown[j] \o "**\n"
            \o "Avg Market: '" \o Text(GetKey(GetKey(target_items, shown[j]), "market_price")) \o "'\n"
            \o "NPC Sell: '" \o Text(GetKey(GetKey(target_items, shown[j]), "sell_price")) \o "'"]

\* the else branch of torn_travelitems_command, lines 227-251
TravelReport(target_items) ==
    LET countries == SelectSeq(TRAVEL_ITEM_MAP,
                        LAMBDA c : CountryContent(c.items, target_items) # <<>>)
    IN  Sends(Embed(
            ":airplane: Travel Market Price Guide",
            Str(<<"Average prices for key plushies and bottles from travel destinations.">>),
            [j \in 1..Len(countries) |->
                Field(":flag_" \o countries[j].flag \o ": " \o countries[j].country,
                      JoinLines(CountryContent(countries[j].items, target_items)))],
            "Requested by display_name | Prices are system-calculated averages, not live market rates.",
            FALSE))

\* torn_travelitems_command past the fetch: data is what get_travel_item_info evaluated to
TravelItemsCommand(data) ==
    IF data.exc # "" THEN Faults(data.exc)
    ELSE IF PyContains(data.val, "error").val
    THEN Sends(Embed(":x: Torn Item Lookup Failed", GetKey(data.val, "error"), <<>>,
                     "Check your API key and ensure it has necessary permissions.", TRUE))
    ELSE TravelReport(GetKey(data.val, "items"))

\* the pipeline of command c on the outcome of its fetch
PipelineData(c, o) ==
    IF o.kind = "raise" THEN Raise(CHOOSE class \in o.classes : TRUE)
    ELSE IF c = "stocks" THEN StockData(o.value)
    ELSE TravelItemInfo(o.value)

\* the handler of command c on the value of its pipeline
HandlerOutcome(c, data) ==
    IF c = "stocks" THEN StocksCommand(data) ELSE TravelItemsCommand(data)

-----------------------------------------------------------------------------
(* The bot process: main(), the event loop, the handlers and the endpoint *)

Invocations == 1..NumInv
Commands == {"stocks", "travelitems"}

\* `not BOT_TOKEN`
TokenMissing_NoneOnly(token) == token = PyNone
TokenMissing(token) == ~Truthy(token)

\* discord accepts the token at login
TokenValid(token) == token = Str(<<"valid-token">>)

Init ==
    /\ max_retries = DefaultMaxRetries
    /\ FetchIdle
    /\ BOT_TOKEN \in {PyNone, Str(<<>>), Str(<<"revoked-token">>), Str(<<"valid-token">>)}
    /\ mainPc = "start"
    /\ botStarted = FALSE /\ botReady = FALSE
    /\ webStarted = FALSE /\ webListening = FALSE
    /\ running = 0
    /\ pc = [i \in Invocations |-> "idle"]
    /\ cmd = [i \in Invocations |-> "none"]
    /\ att = [i \in Invocations |-> 0]
    /\ fetched = [i \in Invocations |-> Answer(PyNone)]
    /\ result = [i \in Invocations |-> PyNone]
    /\ sent = [i \in Invocations |-> <<>>]
    /\ healthPending = 0

\* main(): without a token it returns; with one it gathers the two tasks
MainStart ==
    /\ mainPc = "start"
    /\ IF TokenMissing(BOT_TOKEN)
       THEN /\ mainPc' = "returned"
            /\ UNCHANGED <<botStarted, webStarted>>
       ELSE /\ mainPc' = "gathered"
            /\ botStarted' = TRUE
            /\ webStarted' = TRUE
    /\ UNCHANGED <<fetchVars, BOT_TOKEN, botReady, webListening, running, pc, cmd, att,
                   fetched, result, sent, healthPending>>

\* bot.start logs in and on_ready fires
BotLogin ==
    /\ mainPc = "gathered" /\ botStarted /\ ~botReady
    /\ running = 0
    /\ TokenValid(BOT_TOKEN)
    /\ botReady' = TRUE
    /\ UNCHANGED <<fetchVars, BOT_TOKEN, mainPc, botStarted, webStarted, webListening, running,
                   pc, cmd, att, fetched, result, sent, healthPending>>

\* bot.start raises LoginFailure: gather propagates it, main prints and returns,
\* asyncio.run cancels the web server task
BotLoginFailure ==
    /\ mainPc = "gathered" /\ botStarted /\ ~botReady
    /\ running = 0
    /\ ~TokenValid(BOT_TOKEN)
    /\ mainPc' = "returned"
    /\ webListening' = FALSE
    /\ UNCHANGED <<fetchVars, BOT_TOKEN, botStarted, botReady, webStarted, running,
                   pc, cmd, att, fetched, result, sent, healthPending>>

\* start_web_server reaches site.start()
WebListen ==
    /\ mainPc = "gathered" /\ webStarted /\ ~webListening
    /\ running = 0
    /\ webListening' = TRUE
    /\ UNCHANGED <<fetchVars, BOT_TOKEN, mainPc, botStarted, botReady, webStarted, running,
                   pc, cmd, att, fetched, result, sent, healthPending>>

\* a client connects and sends GET /
HealthArrive ==
    /\ webListening
    /\ healthPending < MaxHealth
    /\ healthPending' = healthPending + 1
    /\ UNCHANGED <<fetchVars, BOT_TOKEN, mainPc, botStarted, botReady, webStarted, webListening,
                   running, pc, cmd, att, fetched, result, sent>>

\* the event loop runs health_check for a request received
HealthCheck ==
    /\ webListening
    /\ running = 0
    /\ healthPending > 0
    /\ healthPending' = healthPending - 1
    /\ UNCHANGED <<fetchVars, BOT_TOKEN, mainPc, botStarted, botReady, webStarted, webListening,
                   running, pc, cmd, att, fetched, result, sent>>

\* a user issues command c: the event loop starts the handler, which runs to
\* `await interaction.response.defer()`.  Invocations are numbered in the order
\* they are issued.
Invoke(i, c) ==
    /\ mainPc = "gathered" /\ botReady
    /\ running = 0
    /\ pc[i] = "idle"
    /\ \A j \in 1..(i - 1) : pc[j] # "idle"
    /\ pc' = [pc EXCEPT ![i] = "deferring"]
    /\ cmd' = [cmd EXCEPT ![i] = c]
    /\ UNCHANGED <<fetchVars, BOT_TOKEN, mainPc, botStarted, botReady, webStarted, webListening,
                   running, att, fetched, result, sent, healthPending>>

\* defer() completes: the event loop resumes the handler, which calls its
\* pipeline, a plain function, and so keeps the loop's thread inside requests.get
Deferred(i) ==
    /\ pc[i] = "deferring"
    /\ running = 0
    /\ running' = i
    /\ pc' = [pc EXCEPT ![i] = "requesting"]
    /\ att' = [att EXCEPT ![i] = 0]
    /\ UNCHANGED <<fetchVars, BOT_TOKEN, mainPc, botStarted, botReady, webStarted, webListening,
                   cmd, fetched, result, sent, healthPending>>

\* the fetch of invocation i ends with outcome o after the answer resp: the rest
\* of the pipeline and of the handler run, up to `await interaction.followup.send`
\* or to the exception that ends the handler
Complete(i, resp, o) ==
    LET data == PipelineData(cmd[i], o)
        h == HandlerOutcome(cmd[i], data)
    IN  /\ fetched' = [fetched EXCEPT ![i] = resp]
        /\ result' = [result EXCEPT ![i] = data.val]
        /\ sent' = [sent EXCEPT ![i] = h.msgs]
        /\ pc' = [pc EXCEPT ![i] = IF h.exc # "" THEN "faulted" ELSE "sending"]
        /\ att' = [att EXCEPT ![i] = 0]
        /\ running' = 0

\* requests.get of invocation i is answered
Respond(i, resp) ==
    /\ pc[i] = "requesting"
    /\ running = i
    /\ LET o == FetchAttempt(resp, att[i], DefaultMaxRetries) IN
        IF o.kind = "sleep"
        THEN /\ pc' = [pc EXCEPT ![i] = "sleeping"]
             /\ UNCHANGED <<att, fetched, result, sent, running>>
        ELSE Complete(i, resp, o)
    /\ UNCHANGED <<fetchVars, BOT_TOKEN, mainPc, botStarted, botReady, webStarted, webListening,
                   cmd, healthPending>>

\* time.sleep of invocation i returns; continue
SleepDone(i) ==
    /\ pc[i] = "sleeping"
    /\ running = i
    /\ IF LoopContinues(att[i] + 1, DefaultMaxRetries)
       THEN /\ pc' = [pc EXCEPT ![i] = "requesting"]
            /\ att' = [att EXCEPT ![i] = att[i] + 1]
            /\ UNCHANGED <<fetched, result, sent, running>>
       ELSE Complete(i, Answer(RateLimitBody), Returning(MaxRetriesError))
    /\ UNCHANGED <<fetchVars, BOT_TOKEN, mainPc, botStarted, botReady, webStarted, webListening,
                   cmd, healthPending>>

\* followup.send completes: the event loop resumes the handler, which ends, and
\* its locals with it
SendDone(i) ==
    /\ pc[i] = "sending"
    /\ running = 0
    /\ pc' = [pc EXCEPT ![i] = "done"]
    /\ cmd' = [cmd EXCEPT ![i] = "none"]
    /\ fetched' = [fetched EXCEPT ![i] = Answer(PyNone)]
    /\ result' = [result EXCEPT ![i] = PyNone]
    /\ sent' = [sent EXCEPT ![i] = <<>>]
    /\ UNCHANGED <<fetchVars, BOT_TOKEN, mainPc, botStarted, botReady, webStarted, webListening,
                   running, att, healthPending>>

Next ==
    \/ MainStart
    \/ BotLogin
    \/ BotLoginFailure
    \/ WebListen
    \/ HealthArrive
    \/ HealthCheck
    \/ \E i \in Invocations, c \in Commands : Invoke(i, c)
    \/ \E i \in Invocations : Deferred(i)
    \/ \E i \in Invocations : \E resp \in CommandAnswers(cmd[i]) : Respond(i, resp)
    \/ \E i \in Invocations : SleepDone(i)
    \/ \E i \in Invocations : SendDone(i)

Spec == Init /\ [][Next]_vars

-----------------------------------------------------------------------------
(* Properties of fetch_torn_data_with_retry, checked under FetchSpec *)

RECURSIVE SumSeq(_)
SumSeq(s) == IF s = <<>> THEN 0 ELSE Head(s) + SumSeq(Tail(s))

\* the provider answered with a parsed body carrying error code 5
AnsweredRateLimit(resp) ==
    /\ resp.classes = {}
    /\ resp.body.t = "obj"
    /\ HasKey(resp.body, "error")
    /\ GetKey(resp.body, "error").t = "obj"
    /\ HasKey(GetKey(resp.body, "error"), "code")
    /\ GetKey(GetKey(resp.body, "error"), "code") = Num(5)

\* the provider answered with a successful payload: an object with no error member
AnsweredPayload(resp) ==
    /\ resp.classes = {}
    /\ resp.body.t = "obj"
    /\ ~HasKey(resp.body, "error")

FetchEnded == fpc \in {"returned", "raised"}

\* the first n answers were rate limits and answer n+1 was a payload
RateLimitedThenPayload(n) ==
    /\ Len(responses) = n + 1
    /\ \A k \in 1..n : AnsweredRateLimit(responses[k])
    /\ AnsweredPayload(responses[n + 1])

\* C1: for every n with 0 <= n < max_retries, when the first n requests are
\* answered with error code 5 and request n+1 with a successful payload, the
\* function returns that payload, having slept exactly 2^k seconds after the
\* k-th rate-limited attempt (k from 0): 2^n - 1 seconds in total.
C1_BackoffThenPayload ==
    \A n \in 0..(max_retries - 1) :
        RateLimitedThenPayload(n) =>
            /\ fpc = "returned"
            /\ fresult = responses[n + 1].body
            /\ Len(sleeps) = n
            /\ \A k \in 0..(n - 1) : sleeps[k + 1] = 2 ^ k
            /\ SumSeq(sleeps) = 2 ^ n - 1

\* two rate limits, then a payload on the third of three attempts: 3 seconds of backoff
C1_Witness ==
    /\ max_retries = 3
    /\ RateLimitedThenPayload(2)
    /\ fpc = "returned"
    /\ SumSeq(sleeps) = 3

\* every request so far was answered with error code 5
AllRateLimited == \A k \in 1..Len(responses) : AnsweredRateLimit(responses[k])

\* C2: with max_retries >= 1, when every request is answered with error code 5
\* the function issues exactly max_retries requests, does not sleep after the
\* last one, and returns the rate-limit error result: it does not raise and
\* does not return a payload.
C2_RateLimitExhausted ==
    (max_retries >= 1 /\ AllRateLimited) =>
        /\ Len(responses) <= max_retries
        /\ Len(sleeps) <= max_retries - 1
        /\ fpc # "raised"
        /\ FetchEnded =>
            /\ Len(responses) = max_retries
            /\ Len(sleeps) = max_retries - 1
            /\ fpc = "returned"
            /\ fresult = RateLimitError
            /\ HasKey(fresult, "error")
            /\ GetKey(fresult, "error").t = "str"

\* three rate limits out of three attempts
C2_Witness ==
    /\ max_retries = 3
    /\ Len(responses) = 3
    /\ AllRateLimited
    /\ fpc = "returned"
    /\ fresult = RateLimitError

\* C3: no call of fetch_torn_data_with_retry ends in an exception: whatever
\* the provider answers, the call returns a payload or a tagged error result.
C3_NeverRaises == fpc # "raised"

\* C4: at most max_retries requests are issued; a request is followed by
\* another only when it was answered with a parsed body carrying error code 5;
\* any other answer ends the call at once, with no sleep after it.
C4_RetryBudget ==
    /\ Len(responses) <= max_retries
    /\ \A k \in 1..(Len(responses) - 1) : AnsweredRateLimit(responses[k])
    /\ Len(sleeps) <= Len(responses)
    /\ (Len(responses) >= 1 /\ ~AnsweredRateLimit(responses[Len(responses)])) =>
            /\ FetchEnded
            /\ Len(sleeps) = Len(responses) - 1

\* a transport failure on the second request, after one rate limit, ends the call
C4_Witness ==
    /\ Len(responses) = 2
    /\ AnsweredRateLimit(responses[1])
    /\ responses[2] = TransportFailure
    /\ fpc = "returned"
    /\ sleeps = <<1>>

\* C5: a malformed (non-JSON) body with a successful status yields the
\* parse-error result, never the connection-error result.
C5_MalformedIsParseError ==
    (Len(responses) >= 1 /\ responses[Len(responses)] \in MalformedAnswers) =>
        /\ fpc = "returned"
        /\ fresult = InvalidJsonError

-----------------------------------------------------------------------------
(* Properties of the bot, checked under Spec *)

\* the handler of invocation i has run past its pipeline
Handled(i) == pc[i] \in {"sending", "faulted"}

\* the fetch of invocation i ended on the provider's error envelope with a code other than 5
ProviderRejected(i) ==
    /\ Handled(i)
    /\ fetched[i].classes = {}
    /\ fetched[i].body.t = "obj"
    /\ HasKey(fetched[i].body, "error")
    /\ GetKey(fetched[i].body, "error").t = "obj"
    /\ HasKey(GetKey(fetched[i].body, "error"), "code")
    /\ GetKey(GetKey(fetched[i].body, "error"), "code") # Num(5)

\* C6: when the provider reports an error with a code other than 5,
\* get_torn_stock_data and get_travel_item_info return an error result whose
\* 'error' value is the text 'Torn API Error <code>: <message>': the handler
\* receives a text, never the provider's raw error object.
C6_ProviderErrorIsText ==
    \A i \in Invocations :
        ProviderRejected(i) =>
            /\ result[i].t = "obj"
            /\ HasKey(result[i], "error")
            /\ GetKey(result[i], "error").t = "str"
            /\ result[i] = ProviderErrorMessage(fetched[i].body)

\* invocation i waits in time.sleep or in requests.get
Suspended(i) == pc[i] \in {"requesting", "sleeping"}

\* C7: while an invocation is inside the backoff delay or waits on its HTTP
\* request, the liveness endpoint and the other invocations can still take
\* their steps: the delay suspends only the invoking task.
C7_OthersCanStep ==
    \A i \in Invocations :
        Suspended(i) =>
            /\ (webListening /\ healthPending > 0) => ENABLED HealthCheck
            /\ \A j \in Invocations \ {i} :
                /\ pc[j] = "deferring" => ENABLED Deferred(j)
                /\ pc[j] = "sending" => ENABLED SendDone(j)

\* the name of a payload item is one of the travel items
NamedTarget(item) ==
    /\ item.t = "obj"
    /\ HasKey(item, "name")
    /\ GetKey(item, "name").t = "str"
    /\ Text(GetKey(item, "name")) \in TARGET_ITEM_NAMES

\* the payload fetched by invocation i has no entry to report
ZeroEntries(i) ==
    /\ fetched[i].classes = {}
    /\ fetched[i].body.t = "obj"
    /\ ~HasKey(fetched[i].body, "error")
    /\ LET key == IF cmd[i] = "stocks" THEN "stocks" ELSE "items"
           entries == IF HasKey(fetched[i].body, key)
                      THEN GetKey(fetched[i].body, key).v ELSE <<>>
       IN  IF cmd[i] = "stocks" THEN entries = <<>>
           ELSE \A k \in 1..Len(entries) : ~NamedTarget(entries[k].x)

\* C8: whenever the fetched payload yields zero entries to report, the command
\* ends by sending exactly one 'no results' message: not an empty report, and
\* not an exception before replying.
C8_ZeroEntriesOneMessage ==
    \A i \in Invocations :
        (Handled(i) /\ ZeroEntries(i)) =>
            /\ pc[i] = "sending"
            /\ Len(sent[i]) = 1
            /\ sent[i][1].fields = <<>>

\* BOT_TOKEN is unset or empty
TokenAbsent == BOT_TOKEN = PyNone \/ BOT_TOKEN = Str(<<>>)

\* C9: without BOT_TOKEN (unset or empty) main() ends without starting the bot
\* or the web server, so no command is ever invoked and the endpoint never
\* listens; with it, main() starts both.
C9_TokenGuardsStartup ==
    /\ TokenAbsent =>
        /\ mainPc \in {"start", "returned"}
        /\ ~botStarted /\ ~botReady
        /\ ~webStarted /\ ~webListening
        /\ \A i \in Invocations : pc[i] = "idle"
        /\ healthPending = 0
    /\ (~TokenAbsent /\ mainPc # "start") => (botStarted /\ webStarted)

\* main() has returned on an empty token
C9_Witness ==
    /\ BOT_TOKEN = Str(<<>>)
    /\ mainPc = "returned"
    /\ ~botStarted /\ ~webStarted

\* invocation i of /travelitems has a report to send
ReportsItems(i) ==
    /\ pc[i] = "sending"
    /\ cmd[i] = "travelitems"
    /\ result[i].t = "obj"
    /\ HasKey(result[i], "items")

ReportedItems(i) == GetKey(result[i], "items").v

\* the whole-dollar text of the prices of the model
PriceText(n) ==
    CASE n = 0 -> "$0"
      [] n = 5 -> "$5"
      [] n = 500 -> "$500"
      [] n = 700 -> "$700"
      [] n = 950 -> "$950"
      [] n = 1000 -> "$1,000"
      [] n = 1250 -> "$1,250"

MinOf(prices) == CHOOSE p \in {prices[k] : k \in 1..Len(prices)} :
                    \A k \in 1..Len(prices) : p <= prices[k]

PayloadItem(i, name) ==
    LET items == GetKey(fetched[i].body, "items").v
        at == {k \in 1..Len(items) : Text(GetKey(items[k].x, "name")) = name}
    IN  items[CHOOSE k \in at : \A j \in at : j <= k].x

\* what the report shows for the item named name, by the payload alone
ExpectedBlock(i, name) ==
    LET item == PayloadItem(i, name)
        market == IF HasKey(item, "market_price") THEN GetKey(item, "market_price").v ELSE 0
        sell == IF HasKey(item, "sell_price") THEN GetKey(item, "sell_price").v ELSE 0
    IN  "**" \o name \o "**\n" \o "Avg Market: '" \o PriceText(market) \o "'\n"
        \o "NPC Sell: '" \o PriceText(sell) \o "'"

====
